---- MODULE Spec2Model ----
(***************************************************************************)
(* A model of pygreeks.py: Black-Scholes valuation, autograd and           *)
(* analytical Greeks, implied-volatility solving and the two orchestration *)
(* entry points.                                                           *)
(*                                                                         *)
(* Floating-point results are kept symbolic: a value is a tagged tuple     *)
(* that records the operation that produced it and every argument it was   *)
(* given (form, underlying, strike, expiry, sigma, rate), so two results   *)
(* are equal exactly when the code computed them from the same call.       *)
(* Whether a call into torch, scipy or py_vollib raises on given numbers   *)
(* is decided outside this repository; it is an input of each call (lib).  *)
(* Exceptions decided by the repository's own statements (indexing an      *)
(* empty kind, arithmetic on None, assert) are modelled exactly.           *)
(***************************************************************************)
EXTENDS Integers, Sequences, FiniteSets, TLC

VARIABLES option, BASE_RATE, stdout, heap, ncalls, last

vars == <<option, BASE_RATE, stdout, heap, ncalls, last>>

----------------------------------------------------------------------------
(* Bounds of the model *)

\* calls made on one Option record in a behaviour
MaxCalls == 2
\* longest 'which' list handed to deriveGreeks2
MaxWhich == 2

----------------------------------------------------------------------------
(* Values *)

\* the module-level default, in units of 1e-4 (0.0007)
DefaultRate == 7

None == <<"None">>
Num(x) == <<"num", x>>

\* Python truth value of a float-or-None field ('if guess:', 'not option.iv')
Truthy(v) == v # None /\ v # Num(0)

\* a torch tensor holding one value, and Tensor.item()
Tensor(v) == <<"tensor", v>>
item(t) == t[2]

unwrap(t) == IF t[1] = "tensor" THEN item(t) ELSE t

\* the outcome of evaluating an expression: a value or a raised exception
Value(v) == [exc |-> "none", val |-> v]
Raise(e) == [exc |-> e, val |-> None]

\* evaluate x once and hand its value on: one statement after another
Then(x, F(_)) == CHOOSE y \in {F(v) : v \in {x}} : TRUE

\* str.lower() on one character
Lower(ch) ==
  CASE ch = "C" -> "c"
    [] ch = "P" -> "p"
    [] ch = "X" -> "x"
    [] OTHER -> ch

\* x / c and -x on floats; on None they raise TypeError
Div(x, c) == IF x = None THEN Raise("TypeError") ELSE Value(<<"div", x, c>>)
Neg(x) == <<"neg", x>>

\* one entry of the trace of collaborator invocations: the function, the
\* risk-free rate it was given and whether it returned (ok) or raised
Invoked(fn, r, ok) == [fn |-> fn, r |-> r, ok |-> ok]

Greeks(id, theta, delta, gamma, vega) ==
  <<"Greeks", id, unwrap(theta), unwrap(delta), unwrap(gamma), unwrap(vega)>>

Option(kind, underlying, strike, expiry, iv, npv, greeks) ==
  [kind |-> kind, underlying |-> underlying, strike |-> strike,
   expiry |-> expiry, iv |-> iv, npv |-> npv, greeks |-> greeks]

----------------------------------------------------------------------------
(* Valuation *)

blackScholes_pyTorch(kind, S_0, strike, time_to_expiry, implied_vol, riskfree_rate, cdf) ==
  IF Len(kind) = 0 THEN Raise("IndexError")
  ELSE IF cdf = "raise" THEN Raise("ValueError")
  ELSE IF Lower(kind[1]) = "c"
       THEN Value(Tensor(<<"bs", "call", S_0, strike, time_to_expiry, implied_vol, riskfree_rate>>))
       ELSE Value(Tensor(<<"bs", "put", S_0, strike, time_to_expiry, implied_vol, riskfree_rate>>))

optionNPV(kind, s0, k, t, sigma, r, cdf) ==
  IF sigma = None THEN Raise("TypeError")
  ELSE blackScholes_pyTorch(kind, s0, k, t, sigma, r, cdf)

----------------------------------------------------------------------------
(* Differentiation by autograd *)

\* the gradient of y with respect to the input at position i
\* (0 = S_0, 1 = K, 2 = T, 3 = Sigma, 4 = R)
Grad(y, i) == Tensor(<<"grad", y, i>>)

deriveGreeks1(kind, s0, k, t, sigma, r, cdf) ==
  IF sigma = None THEN Raise("TypeError")
  ELSE
    LET npv == blackScholes_pyTorch(kind, s0, k, t, sigma, r, cdf)
    IN IF npv.exc # "none" THEN npv
       ELSE
         LET y == item(npv.val)
             theta == Div(Neg(item(Grad(y, 2))), "365.25").val
             delta == Grad(y, 0)
             vega == Div(item(Grad(y, 3)), "100").val
         IN Value(<<"tuple", npv.val, Tensor(theta), delta, Tensor(vega)>>)

\* the five fresh input tensors of one pass: only position i tracks gradients
calculateAll(s0, k, t, sigma, r, i) ==
  [j \in 0..4 |->
    [val |-> <<s0, k, t, sigma, r>>[j + 1], requires_grad |-> (i = j), grad |-> None]]

\* gradient.backward(): .grad is filled in on the leaves that require grad
backward(tensors, gradient) ==
  [j \in DOMAIN tensors |->
    IF tensors[j].requires_grad
    THEN [tensors[j] EXCEPT !.grad = Grad(gradient, j)]
    ELSE tensors[j]]

runForIdx(kind, s0, k, t, sigma, r, i, cdf) ==
  IF sigma = None THEN Raise("TypeError")
  ELSE
    LET fresh == calculateAll(s0, k, t, sigma, r, i)
        npv == blackScholes_pyTorch(kind, fresh[0].val, fresh[1].val, fresh[2].val,
                                    fresh[3].val, fresh[4].val, cdf)
    IN IF npv.exc # "none" THEN npv
       ELSE
         LET gradient == item(Grad(item(npv.val), i))
             after == backward(fresh, gradient)
         IN CASE i = 0 \/ i = 3 -> Value(after[i].grad)
              [] i = 1 -> Div(after[2].grad, "365.25")
              [] i = 2 -> Div(after[3].grad, "100 * 365.25")
              [] i = 4 -> Value(after[3].grad)

\* [runForIdx(i) for i in which]: the first pass that raises ends the call
RECURSIVE deriveGreeks2(_, _, _, _, _, _, _, _)
deriveGreeks2(kind, s0, k, t, sigma, r, which, cdf) ==
  IF which = <<>> THEN Value(<<>>)
  ELSE
    LET first == runForIdx(kind, s0, k, t, sigma, r, Head(which), cdf)
    IN IF first.exc # "none" THEN first
       ELSE
         LET rest == deriveGreeks2(kind, s0, k, t, sigma, r, Tail(which), cdf)
         IN IF rest.exc # "none" THEN rest
            ELSE Value(<<first.val>> \o rest.val)

----------------------------------------------------------------------------
(* Implied volatility *)

\* what a call on the Option record leaves behind: the record, the exception
\* raised (or "none"), the value returned and the collaborators invoked
Returned(opt, ret, log) == [opt |-> opt, exc |-> "none", ret |-> ret, log |-> log]
Raised(opt, e, log) == [opt |-> opt, exc |-> e, ret |-> None, log |-> log]

\* the closure findIV(iv) of ivFromOptionAuto; the valuation takes the rate
\* default bound when the module was loaded
findIV(opt, iv, cdf) ==
  LET npv == optionNPV(opt.kind, opt.underlying, opt.strike, opt.expiry, iv, DefaultRate, cdf)
  IN IF npv.exc # "none" THEN npv
     ELSE IF opt.npv = None THEN Raise("TypeError")
     ELSE Value(<<"sub", item(npv.val), opt.npv>>)

\* scipy.optimize.brentq(findIV, 0, 5000): an exception of findIV passes
\* through it; otherwise it finds a root or raises
brentq(opt, lib) ==
  LET f == findIV(opt, <<"var", "iv">>, "ok")
  IN IF f.exc # "none" THEN f
     ELSE IF lib.brentq = "fail" THEN Raise("ValueError")
     ELSE Value(<<"brentq", f.val, 0, 5000>>)

\* scipy.optimize.newton(findIV, guess)
newton(opt, guess, lib) ==
  LET f == findIV(opt, <<"var", "iv">>, "ok")
  IN IF f.exc # "none" THEN f
     ELSE IF lib.newton = "fail" THEN Raise("RuntimeError")
     ELSE Value(<<"newton", f.val, guess>>)

\* (mutant) the except branch re-raises instead of storing the sentinel
brentqFailed_reraises(opt, log) == Raised(opt, "ValueError", log)

\* the except branch of the bracketed search: the 0 sentinel, no exception
brentqFailed(opt, log) == Returned([opt EXCEPT !.iv = Num(0)], Num(0), log)

\* (mutant) a failure of newton is swallowed into the 0 sentinel as well
ivFromOptionAuto_swallowsNewton(opt, guess, lib) ==
  IF Truthy(guess)
  THEN Then(newton(opt, guess, lib), LAMBDA root :
         LET log == <<Invoked("optimize.newton", DefaultRate, root.exc = "none")>>
         IN IF root.exc # "none" THEN brentqFailed(opt, log)
            ELSE Returned([opt EXCEPT !.iv = root.val], root.val, log))
  ELSE Then(brentq(opt, lib), LAMBDA root :
         LET log == <<Invoked("optimize.brentq", DefaultRate, root.exc = "none")>>
         IN IF root.exc # "none" THEN brentqFailed(opt, log)
            ELSE Returned([opt EXCEPT !.iv = root.val], root.val, log))

ivFromOptionAuto(opt, guess, lib) ==
  IF Truthy(guess)
  THEN Then(newton(opt, guess, lib), LAMBDA root :
         LET log == <<Invoked("optimize.newton", DefaultRate, root.exc = "none")>>
         IN IF root.exc # "none" THEN Raised(opt, root.exc, log)
            ELSE Returned([opt EXCEPT !.iv = root.val], root.val, log))
  ELSE Then(brentq(opt, lib), LAMBDA root :
         LET log == <<Invoked("optimize.brentq", DefaultRate, root.exc = "none")>>
         IN IF root.exc # "none" THEN brentqFailed(opt, log)
            ELSE Returned([opt EXCEPT !.iv = root.val], root.val, log))

\* py_vollib's implied_volatility(price, S, K, t, r, flag)
implied_volatility(price, S, K, t, r, flag, lib) ==
  IF price = None THEN Raise("TypeError")
  ELSE IF lib.inversion = "raise" THEN Raise("BelowIntrinsicException")
  ELSE Value(<<"implied_volatility", price, S, K, t, r, flag>>)

\* (mutant) the except branch stores the default 'option.iv = 0.10'
ivFallback_default(opt, log, lib) ==
  Returned([opt EXCEPT !.iv = Num(10)], Num(10), log)

\* the except branch of ivFromOptionFast
ivFallback(opt, log, lib) ==
  Then(ivFromOptionAuto(opt, Num(0), lib), LAMBDA auto :
    IF auto.exc # "none" THEN Raised(auto.opt, auto.exc, log \o auto.log)
    ELSE Returned([auto.opt EXCEPT !.iv = auto.ret], auto.ret, log \o auto.log))

ivFromOptionFast(opt, rate, lib) ==
  IF Len(opt.kind) = 0 THEN ivFallback(opt, <<>>, lib)
  ELSE
    Then(implied_volatility(opt.npv, opt.underlying, opt.strike, opt.expiry,
                            rate, Lower(opt.kind[1]), lib), LAMBDA sigma :
      LET log == <<Invoked("bs_iv.implied_volatility", rate, sigma.exc = "none")>>
      IN IF sigma.exc # "none" THEN ivFallback(opt, log, lib)
         ELSE Returned([opt EXCEPT !.iv = sigma.val], sigma.val, log))

----------------------------------------------------------------------------
(* Orchestration *)

\* (mutant) the assert is gone
assertNpv_removed(opt) == TRUE

\* assert option.npv, "If you don't provide 'iv' you need to provide ... 'npv'"
assertNpv(opt) == Truthy(opt.npv)

\* (mutant) npv is stored whether requested or not
storeNPV_always(opt, calculateNPV, npv) == [opt EXCEPT !.npv = item(npv)]

\* if calculateNPV: option.npv = npv.item()
storeNPV(opt, calculateNPV, npv) ==
  IF calculateNPV THEN [opt EXCEPT !.npv = item(npv)] ELSE opt

\* id is the identity of the Greeks object this call allocates, if it gets there
optionGreeksAuto(opt, calculateNPV, lib, id) ==
  Then(IF ~Truthy(opt.iv)
       THEN IF ~assertNpv(opt) THEN Raised(opt, "AssertionError", <<>>)
            ELSE ivFromOptionAuto(opt, Num(0), lib)
       ELSE Returned(opt, None, <<>>), LAMBDA solved :
    IF solved.exc # "none" THEN solved
    ELSE
      Then(solved.opt, LAMBDA o :
      Then(deriveGreeks1(o.kind, o.underlying, o.strike, o.expiry, o.iv,
                         DefaultRate, lib.cdf), LAMBDA g1 :
      Then(solved.log \o <<Invoked("deriveGreeks1", DefaultRate, g1.exc = "none")>>, LAMBDA log1 :
        IF g1.exc # "none" THEN Raised(o, g1.exc, log1)
        ELSE
          Then(deriveGreeks2(o.kind, o.underlying, o.strike, o.expiry, o.iv,
                             DefaultRate, <<0>>, lib.cdf), LAMBDA g2 :
          Then(log1 \o <<Invoked("deriveGreeks2", DefaultRate, g2.exc = "none")>>, LAMBDA log2 :
            IF g2.exc # "none" THEN Raised(o, g2.exc, log2)
            ELSE
              Then(Greeks(id, g1.val[3], g1.val[4], g2.val[1], g1.val[5]), LAMBDA greeks :
              Then(storeNPV(o, calculateNPV, g1.val[2]), LAMBDA stored :
              Then([stored EXCEPT !.greeks = greeks], LAMBDA done :
                Returned(done, <<"Option", done>>, log2))))))))))

\* the analytical Greeks in the order optionGreeksFast calls them
GreekOrder == <<"bs_ga.theta", "bs_ga.delta", "bs_ga.vega", "bs_ga.gamma">>

\* py_vollib's analytical theta, delta, vega, gamma (flag, S, K, t, r, sigma)
bs_ga(name, flag, S, K, t, r, sigma, lib) ==
  IF lib.greeks = name THEN Raise("ZeroDivisionError")
  ELSE Value(<<name, flag, S, K, t, r, sigma>>)

\* (mutant) the except branch clears option.npv instead of the local npv
revalue_clearsNpv(opt, lib) ==
  Then(optionNPV(opt.kind, opt.underlying, opt.strike, opt.expiry, opt.iv,
                 DefaultRate, lib.cdf), LAMBDA npv :
    LET log == <<Invoked("optionNPV", DefaultRate, npv.exc = "none")>>
    IN IF npv.exc # "none" THEN Returned([opt EXCEPT !.npv = None], None, log)
       ELSE Returned([opt EXCEPT !.npv = item(npv.val)], None, log))

\* the try/except around the revaluation: a failure leaves option.npv alone
revalue(opt, lib) ==
  Then(optionNPV(opt.kind, opt.underlying, opt.strike, opt.expiry, opt.iv,
                 DefaultRate, lib.cdf), LAMBDA npv :
    LET log == <<Invoked("optionNPV", DefaultRate, npv.exc = "none")>>
    IN IF npv.exc # "none" THEN Returned(opt, None, log)
       ELSE Returned([opt EXCEPT !.npv = item(npv.val)], None, log))

\* sys.stdout is saved, set to None, and put back after the fourth Greek
analyticalGreeks(opt, flag, rate, out, lib, id, log) ==
  Then([i \in 1..4 |->
         bs_ga(GreekOrder[i], flag, opt.underlying, opt.strike, opt.expiry,
               rate, opt.iv, lib)], LAMBDA g :
    LET bad == {i \in 1..4 : g[i].exc # "none"}
        reached == IF bad = {} THEN 4 ELSE CHOOSE i \in bad : \A j \in bad : i <= j
        calls == [i \in 1..reached |-> Invoked(GreekOrder[i], rate, g[i].exc = "none")]
        origout == out
    IN IF bad # {}
       THEN Raised(opt, g[reached].exc, log \o calls) @@ [out |-> "None"]
       ELSE Then(Greeks(id, g[1].val, g[2].val, g[4].val, g[3].val), LAMBDA greeks :
            Then([opt EXCEPT !.greeks = greeks], LAMBDA done :
              Returned(done, <<"Option", done>>, log \o calls) @@ [out |-> origout])))

optionGreeksFast(opt, calculateNPV, rate, out, lib, id) ==
  Then(IF ~Truthy(opt.iv)
       THEN IF ~assertNpv(opt) THEN Raised(opt, "AssertionError", <<>>)
            ELSE ivFromOptionFast(opt, rate, lib)
       ELSE Returned(opt, None, <<>>), LAMBDA solved :
    IF solved.exc # "none" THEN solved @@ [out |-> out]
    ELSE
      Then(IF calculateNPV THEN revalue(solved.opt, lib)
           ELSE Returned(solved.opt, None, <<>>), LAMBDA valued :
      Then(valued.opt, LAMBDA o :
      Then(solved.log \o valued.log, LAMBDA log :
        IF Len(o.kind) = 0 THEN Raised(o, "IndexError", log) @@ [out |-> out]
        ELSE
          LET flag == Lower(o.kind[1])
          IN IF ~(flag = "c" \/ flag = "p")
             THEN Raised(o, "AssertionError", log) @@ [out |-> out]
             ELSE analyticalGreeks(o, flag, rate, out, lib, id, log)))))

----------------------------------------------------------------------------
(* Inputs *)

Kinds == {<<"c", "a", "l", "l">>, <<"P", "u", "t">>, <<"x">>, <<>>}
Ivs == {None, Num(0), Num(20)}
Npvs == {None, Num(-5), Num(12)}
Guesses == {Num(0), Num(30)}
Rates == {DefaultRate, 50}
Handles == {"console"}

\* every list of positions 0..4 of length at most n
RECURSIVE Lists(_)
Lists(n) ==
  IF n = 0 THEN {<<>>}
  ELSE Lists(n - 1) \cup {Append(w, i) : w \in Lists(n - 1), i \in 0..4}

Whichs == Lists(MaxWhich)
Sigmas == {Num(20)}

\* what the numerical collaborators do on this call's numbers
LibOk == [inversion |-> "ok", brentq |-> "ok", newton |-> "ok", cdf |-> "ok", greeks |-> "ok"]
Outcome == {"ok", "fail"}
Raises == {"ok", "raise"}
GreekRaises == {"ok"} \cup {GreekOrder[n] : n \in 1..4}
Lib(inversion, brentq_, newton_, cdf, greeks) ==
  [inversion |-> inversion, brentq |-> brentq_, newton |-> newton_, cdf |-> cdf,
   greeks |-> greeks]

\* the collaborators' behaviour is an input only for those a call invokes
Uses(log, fns) == \E n \in DOMAIN log : log[n].fn \in fns
Relevant(lib, log) ==
  /\ lib.inversion # "ok" => Uses(log, {"bs_iv.implied_volatility"})
  /\ lib.brentq # "ok" => Uses(log, {"optimize.brentq"})
  /\ lib.newton # "ok" => Uses(log, {"optimize.newton"})
  /\ lib.cdf # "ok" => Uses(log, {"optionNPV", "deriveGreeks1", "deriveGreeks2"})
  /\ lib.greeks # "ok" => Uses(log, {lib.greeks})

NoCall ==
  [op |-> "none", pre |-> None, preOut |-> "None", rate |-> DefaultRate,
   guess |-> None, calc |-> FALSE, sigma |-> None, which |-> <<>>, lib |-> LibOk,
   exc |-> "none", ret |-> None, log |-> <<>>]

----------------------------------------------------------------------------
(* The state machine: a caller holding one Option record *)

Init ==
  /\ \E kind \in Kinds, iv \in Ivs, npv \in Npvs :
       option = Option(kind, 100, 100, 30, iv, npv, None)
  /\ BASE_RATE = DefaultRate
  /\ stdout \in Handles
  /\ heap = 0
  /\ ncalls = 0
  /\ last = NoCall

\* record a finished call on the Option record
Finish(op, guess, calc, lib, r) ==
  /\ Relevant(lib, r.log)
  /\ option' = r.opt
  /\ ncalls' = ncalls + 1
  /\ last' = [op |-> op, pre |-> option, preOut |-> stdout, rate |-> BASE_RATE,
              guess |-> guess, calc |-> calc, sigma |-> None, which |-> <<>>,
              lib |-> lib, exc |-> r.exc, ret |-> r.ret, log |-> r.log]

Call_ivFromOptionAuto ==
  /\ ncalls < MaxCalls
  /\ \E guess \in Guesses, b \in Outcome, n \in Outcome :
       \E lib \in {Lib("ok", b, n, "ok", "ok")} :
       \E r \in {ivFromOptionAuto(option, guess, lib)} :
         Finish("ivFromOptionAuto", guess, FALSE, lib, r)
  /\ UNCHANGED <<BASE_RATE, stdout, heap>>

Call_ivFromOptionFast ==
  /\ ncalls < MaxCalls
  /\ \E i \in Raises, b \in Outcome :
       \E lib \in {Lib(i, b, "ok", "ok", "ok")} :
       \E r \in {ivFromOptionFast(option, BASE_RATE, lib)} :
         Finish("ivFromOptionFast", None, FALSE, lib, r)
  /\ UNCHANGED <<BASE_RATE, stdout, heap>>

Call_optionGreeksAuto ==
  /\ ncalls < MaxCalls
  /\ \E calculateNPV \in BOOLEAN, b \in Outcome, c \in Raises :
       \E lib \in {Lib("ok", b, "ok", c, "ok")} :
       \E r \in {optionGreeksAuto(option, calculateNPV, lib, heap + 1)} :
          /\ Finish("optionGreeksAuto", None, calculateNPV, lib, r)
          /\ heap' = IF r.exc = "none" THEN heap + 1 ELSE heap
  /\ UNCHANGED <<BASE_RATE, stdout>>

Call_optionGreeksFast ==
  /\ ncalls < MaxCalls
  /\ \E calculateNPV \in BOOLEAN, i \in Raises, b \in Outcome, c \in Raises,
        g \in GreekRaises :
       \E lib \in {Lib(i, b, "ok", c, g)} :
       \E r \in {optionGreeksFast(option, calculateNPV, BASE_RATE, stdout, lib,
                                  heap + 1)} :
          /\ Finish("optionGreeksFast", None, calculateNPV, lib, r)
          /\ stdout' = r.out
          /\ heap' = IF r.exc = "none" THEN heap + 1 ELSE heap
  /\ UNCHANGED BASE_RATE

\* record a finished call that takes plain arguments and leaves the record alone
FinishPure(op, sigma, r, which, lib, res, log) ==
  /\ Relevant(lib, log)
  /\ ncalls' = ncalls + 1
  /\ last' = [op |-> op, pre |-> option, preOut |-> stdout, rate |-> r,
              guess |-> None, calc |-> FALSE, sigma |-> sigma, which |-> which,
              lib |-> lib, exc |-> res.exc,
              ret |-> IF res.exc = "none" THEN <<"value", res.val>> ELSE None,
              log |-> log]
  /\ UNCHANGED <<option, BASE_RATE, stdout, heap>>

Call_optionNPV ==
  /\ ncalls < MaxCalls
  /\ \E sigma \in Sigmas, r \in Rates, c \in Raises :
       \E lib \in {Lib("ok", "ok", "ok", c, "ok")} :
       \E res \in {optionNPV(option.kind, option.underlying, option.strike,
                             option.expiry, sigma, r, lib.cdf)} :
         FinishPure("optionNPV", sigma, r, <<>>, lib, res,
                    <<Invoked("optionNPV", r, res.exc = "none")>>)

Call_deriveGreeks2 ==
  /\ ncalls < MaxCalls
  /\ \E sigma \in Sigmas, r \in Rates, which \in Whichs, c \in Raises :
       \E lib \in {Lib("ok", "ok", "ok", c, "ok")} :
       \E res \in {deriveGreeks2(option.kind, option.underlying, option.strike,
                                 option.expiry, sigma, r, which, lib.cdf)} :
         FinishPure("deriveGreeks2", sigma, r, which, lib, res,
                    <<Invoked("deriveGreeks2", r, res.exc = "none")>>)

\* the caller rebinds the module global: pygreeks.BASE_RATE = r
SetBaseRate ==
  /\ \E r \in Rates \ {BASE_RATE} : BASE_RATE' = r
  /\ UNCHANGED <<option, stdout, heap, ncalls, last>>

Next ==
  \/ Call_ivFromOptionAuto
  \/ Call_ivFromOptionFast
  \/ Call_optionGreeksAuto
  \/ Call_optionGreeksFast
  \/ Call_optionNPV
  \/ SetBaseRate

Spec == Init /\ [][Next]_vars

\* the pure functions alone, called on the record's parameters
NextPure ==
  \/ Call_optionNPV
  \/ Call_deriveGreeks2

SpecPure == Init /\ [][NextPure]_vars

----------------------------------------------------------------------------
(* Properties *)

InvokedIn(log, fn) == \E n \in DOMAIN log : log[n].fn = fn
FailedIn(log, fn) == \E n \in DOMAIN log : log[n].fn = fn /\ ~log[n].ok
Solvers == {"optimize.brentq", "optimize.newton", "bs_iv.implied_volatility"}
Orchestration == {"optionGreeksAuto", "optionGreeksFast"}
ValidKind(kind) == Len(kind) > 0 /\ Lower(kind[1]) \in {"c", "p"}
InvalidKind(kind) == Len(kind) > 0 /\ Lower(kind[1]) \notin {"c", "p"}
FreshGreeks ==
  /\ option.greeks[1] = "Greeks"
  /\ option.greeks[2] = heap
  /\ option.greeks # last.pre.greeks

\* C1: ivFromOptionAuto with no guess never raises; whenever the bracketed
\* search fails, for whatever reason, option.iv is set to 0 and 0 is returned.
C1_NoGuessNeverRaises ==
  (last.op = "ivFromOptionAuto" /\ ~Truthy(last.guess)) =>
    /\ last.exc = "none"
    /\ FailedIn(last.log, "optimize.brentq") =>
         (option.iv = Num(0) /\ last.ret = Num(0))

C1_Witness ==
  /\ last.op = "ivFromOptionAuto"
  /\ last.guess = Num(0)
  /\ last.pre.kind = <<"x">>
  /\ last.pre.npv = None
  /\ FailedIn(last.log, "optimize.brentq")
  /\ option.iv = Num(0)

\* C2: when the analytical inversion raises, ivFromOptionFast does not raise
\* and stores and returns exactly the sigma that ivFromOptionAuto with no
\* guess produces on the same record.
C2_FastFallsBackToAuto ==
  (/\ last.op = "ivFromOptionFast"
   /\ \/ Len(last.pre.kind) = 0
      \/ FailedIn(last.log, "bs_iv.implied_volatility")) =>
    /\ last.exc = "none"
    /\ option.iv = ivFromOptionAuto(last.pre, Num(0), last.lib).ret
    /\ last.ret = ivFromOptionAuto(last.pre, Num(0), last.lib).ret

C2_Witness ==
  /\ last.op = "ivFromOptionFast"
  /\ FailedIn(last.log, "bs_iv.implied_volatility")
  /\ last.pre.npv = Num(12)
  /\ option.iv[1] = "brentq"
  /\ last.ret = option.iv

\* C3: an invalid kind makes the valuation function, the exact-mode solve and
\* the fast-mode solve raise.
C3_InvalidKindRaises ==
  (/\ last.op \in {"optionNPV", "optionGreeksAuto", "optionGreeksFast"}
   /\ InvalidKind(last.pre.kind)) =>
    last.exc # "none"

\* C4: with neither iv nor npv, both entry points raise at once: no solver is
\* invoked and the record is left exactly as it was.
C4_MissingInputRaises ==
  (/\ last.op \in Orchestration
   /\ last.pre.iv = None
   /\ last.pre.npv = None) =>
    /\ last.exc = "AssertionError"
    /\ last.log = <<>>
    /\ option = last.pre

C4_Witness ==
  /\ last.op = "optionGreeksFast"
  /\ last.pre.iv = None
  /\ last.pre.npv = None
  /\ last.exc = "AssertionError"

\* C5: on every exit from optionGreeksFast, normal or by an exception of an
\* analytical Greek, sys.stdout is the handle installed before the call.
C5_StdoutRestored ==
  last.op = "optionGreeksFast" => stdout = last.preOut

\* C6: for every list of positions 0..4 (valid kind, valuation defined),
\* deriveGreeks2 returns normally a list of the same length with no missing
\* (None) element.
C6_EveryIndexYieldsAValue ==
  (/\ last.op = "deriveGreeks2"
   /\ ValidKind(last.pre.kind)
   /\ last.lib.cdf = "ok") =>
    /\ last.exc = "none"
    /\ Len(last.ret[2]) = Len(last.which)
    /\ \A n \in DOMAIN last.ret[2] : last.ret[2][n] # None

\* the revaluation of optionGreeksFast was reached and raised
RevaluationFailed ==
  last.op = "optionGreeksFast" /\ FailedIn(last.log, "optionNPV")

\* C7 as stated: after a failed revaluation npv is kept, nothing is raised and
\* option.greeks is populated.
C7_AsStated ==
  RevaluationFailed =>
    /\ option.npv = last.pre.npv
    /\ last.exc = "none"
    /\ FreshGreeks

\* C7 as amended: after a failed revaluation npv is kept and the call goes on
\* to the kind validation; with a valid kind the analytical Greeks are
\* invoked, and option.greeks is populated whenever none of them raises.
C7_RevaluationTolerated ==
  RevaluationFailed =>
    /\ option.npv = last.pre.npv
    /\ ValidKind(last.pre.kind) =>
         /\ InvokedIn(last.log, "bs_ga.theta")
         /\ (\A n \in 1..4 : ~FailedIn(last.log, GreekOrder[n])) =>
              /\ last.exc = "none"
              /\ \A n \in 1..4 : InvokedIn(last.log, GreekOrder[n])
              /\ FreshGreeks
    /\ ~ValidKind(last.pre.kind) =>
         /\ last.exc \in {"IndexError", "AssertionError"}
         /\ option.greeks = last.pre.greeks

C7_Witness ==
  /\ RevaluationFailed
  /\ last.pre.npv = Num(12)
  /\ option.npv = Num(12)
  /\ last.exc = "none"
  /\ FreshGreeks

\* C8: the entry points touch only iv, npv and greeks; a nonzero iv keeps the
\* solvers out and stays; calculateNPV false keeps npv; a normal return hands
\* back the record itself, holding a newly created Greeks.
C8_Frame ==
  last.op \in Orchestration =>
    /\ option.kind = last.pre.kind
    /\ option.underlying = last.pre.underlying
    /\ option.strike = last.pre.strike
    /\ option.expiry = last.pre.expiry
    /\ Truthy(last.pre.iv) =>
         /\ option.iv = last.pre.iv
         /\ \A n \in DOMAIN last.log : last.log[n].fn \notin Solvers
    /\ ~last.calc => option.npv = last.pre.npv
    /\ last.exc = "none" =>
         /\ last.ret = <<"Option", option>>
         /\ FreshGreeks

C8_Witness ==
  /\ last.op = "optionGreeksAuto"
  /\ last.pre.iv = Num(20)
  /\ ~last.calc
  /\ last.pre.npv = Num(12)
  /\ last.exc = "none"
  /\ FreshGreeks

\* C9: with a nonzero guess only newton is used, and its failure is raised with
\* the record untouched; with no guess only brentq is used.
C9_FinderChosenByGuess ==
  last.op = "ivFromOptionAuto" =>
    /\ Len(last.log) = 1
    /\ Truthy(last.guess) =>
         /\ last.log[1].fn = "optimize.newton"
         /\ ~last.log[1].ok => (last.exc # "none" /\ option = last.pre)
    /\ ~Truthy(last.guess) => last.log[1].fn = "optimize.brentq"

C9_Witness ==
  /\ last.op = "ivFromOptionAuto"
  /\ last.guess = Num(30)
  /\ last.pre.iv = Num(20)
  /\ last.lib.newton = "fail"
  /\ last.exc = "RuntimeError"
  /\ option.iv = Num(20)

\* C10: within one optionGreeksFast call every collaborator is given one and
\* the same risk-free rate.
C10_OneRatePerSolve ==
  last.op = "optionGreeksFast" =>
    \A m, n \in DOMAIN last.log : last.log[m].r = last.log[n].r

====
